---- MODULE Spec2Model ----
(***************************************************************************)
(* Model of the job scheduler of src/Project.cpp: a fixed pool of worker   *)
(* nodes, three policy queues (FCFS, smallest job first, shortest duration *)
(* first), first-fit allocation over the nodes in index order, a list of   *)
(* pending jobs and the utilization report.                                *)
(***************************************************************************)
EXTENDS Integers, Sequences, FiniteSets, TLC

(***************************************************************************)
(* Bounds of the model and constants of the program.                       *)
(***************************************************************************)
\* Number of worker nodes the Scheduler is constructed with (main uses 128).
NumNodes == 2

\* Number of jobs the job producer enqueues in one run.
MaxJobs == 3

\* Number of jobs enqueued in the runs that generate reports (ReportSpec).
MaxReportJobs == 2

\* Number of calls made on the node of NodeSpec.
MaxCalls == 3

\* WorkerNode::totalCores and WorkerNode::totalMemory.
TotalCores == 24

TotalMemory == 64

\* Largest value of a 32-bit signed int.
INT_MAX == 2147483647

\* The node id reported for a job that no node admitted.
NoNode == -1

(***************************************************************************)
(* The jobs the producer may construct: arrivalTime, coresRequired,        *)
(* memoryRequired, execTime.  All fields are positive ints.  The set holds *)
(* job 3 of generateSampleJobs, job 5 with 32 GB (half a node), a job that *)
(* needs more cores than a node has, and a job that needs more memory than *)
(* a node has and runs so long that execTime * coresRequired *             *)
(* memoryRequired does not fit in an int.                                  *)
(***************************************************************************)
JobShapes ==
    { <<3, 20, 48, 2>>,
      <<5, 12, 32, 1>>,
      <<2, 25, 1, 3>>,
      <<1, 1, 65, 40000000>> }

\* Job::Job: the constructor stores the arguments and clears completed.
Job(id, arrival, cores, memory, exec) ==
    [ id |-> id, arrivalTime |-> arrival, coresRequired |-> cores,
      memoryRequired |-> memory, execTime |-> exec, completed |-> FALSE ]

\* WorkerNode{i}: both counters start at the totals.
WorkerNode(i) ==
    [ id |-> i, totalCores |-> TotalCores, totalMemory |-> TotalMemory,
      availableCores |-> TotalCores, availableMemory |-> TotalMemory ]

VARIABLES
    nodes,              \* Scheduler::nodes, node i of the code at index i + 1
    jobQueueFCFS,       \* Scheduler::jobQueueFCFS, front first
    jobQueueSmallest,   \* Scheduler::jobQueueSmallest, in insertion order
    jobQueueShortest,   \* Scheduler::jobQueueShortest, in insertion order
    pendingJobs,        \* Scheduler::pendingJobs
    pc,                 \* the drain loop the program is in, or "idle"
    report,             \* the rows of the last report file written
    submitted,          \* history: every job enqueued, with its queue
    log                 \* history: one entry per job a drain processed

vars == << nodes, jobQueueFCFS, jobQueueSmallest, jobQueueShortest,
           pendingJobs, pc, report, submitted, log >>

(***************************************************************************)
(* WorkerNode                                                              *)
(***************************************************************************)
\* allocateJob with the test of the memory left out.
allocateJob_CoresOnly(node, job) ==
    IF node.availableCores >= job.coresRequired
    THEN [ ok |-> TRUE,
           node |-> [node EXCEPT !.availableCores = @ - job.coresRequired,
                                 !.availableMemory = @ - job.memoryRequired] ]
    ELSE [ ok |-> FALSE, node |-> node ]

\* allocateJob taking the cores before it tests the memory.
allocateJob_Partial(node, job) ==
    IF node.availableCores >= job.coresRequired
    THEN IF node.availableMemory >= job.memoryRequired
         THEN [ ok |-> TRUE,
                node |-> [node EXCEPT !.availableCores = @ - job.coresRequired,
                                      !.availableMemory = @ - job.memoryRequired] ]
         ELSE [ ok |-> FALSE,
                node |-> [node EXCEPT !.availableCores = @ - job.coresRequired] ]
    ELSE [ ok |-> FALSE, node |-> node ]

\* allocateJob with || for &&.
allocateJob_Or(node, job) ==
    IF node.availableCores >= job.coresRequired
       \/ node.availableMemory >= job.memoryRequired
    THEN [ ok |-> TRUE,
           node |-> [node EXCEPT !.availableCores = @ - job.coresRequired,
                                 !.availableMemory = @ - job.memoryRequired] ]
    ELSE [ ok |-> FALSE, node |-> node ]

\* allocateJob with += for -=: an allocation gives capacity to the node.
allocateJob_Add(node, job) ==
    IF node.availableCores >= job.coresRequired
       /\ node.availableMemory >= job.memoryRequired
    THEN [ ok |-> TRUE,
           node |-> [node EXCEPT !.availableCores = @ + job.coresRequired,
                                 !.availableMemory = @ + job.memoryRequired] ]
    ELSE [ ok |-> FALSE, node |-> node ]

\* WorkerNode::allocateJob: the result and the node after the call.
allocateJob(node, job) ==
    IF node.availableCores >= job.coresRequired
       /\ node.availableMemory >= job.memoryRequired
    THEN [ ok |-> TRUE,
           node |-> [node EXCEPT !.availableCores = @ - job.coresRequired,
                                 !.availableMemory = @ - job.memoryRequired] ]
    ELSE [ ok |-> FALSE, node |-> node ]

\* freeResources with a bounds check: the counters stop at the totals.
freeResources_Clamped(node, job) ==
    LET cores == node.availableCores + job.coresRequired
        memory == node.availableMemory + job.memoryRequired
    IN  [node EXCEPT
           !.availableCores = IF cores > node.totalCores THEN node.totalCores
                              ELSE cores,
           !.availableMemory = IF memory > node.totalMemory THEN node.totalMemory
                               ELSE memory]

\* WorkerNode::freeResources: the node after the call.
freeResources(node, job) ==
    [node EXCEPT !.availableCores = @ + job.coresRequired,
                 !.availableMemory = @ + job.memoryRequired]

\* The text "%.2f" prints for the double nearest to num / den, in hundredths:
\* num / den rounded to two decimals, an exact tie going to the even digit.
Fixed2(num, den) ==
    LET q == (100 * num) \div den
        r == (100 * num) % den
    IN  IF 2 * r > den \/ (2 * r = den /\ q % 2 = 1) THEN q + 1 ELSE q

\* getCpuUtilization without the cast to double: the division is the integer
\* division of availableCores by totalCores.
getCpuUtilization_IntDivision(node) ==
    Fixed2(100 * (1 - node.availableCores \div node.totalCores), 1)

\* WorkerNode::getCpuUtilization, 100 * (1 - availableCores / totalCores), as
\* the report prints it, in hundredths of a percent.
getCpuUtilization(node) ==
    Fixed2(100 * (node.totalCores - node.availableCores), node.totalCores)

\* WorkerNode::getMemoryUtilization, as the report prints it.
getMemoryUtilization(node) ==
    Fixed2(100 * (node.totalMemory - node.availableMemory), node.totalMemory)

(***************************************************************************)
(* The comparators of the two priority queues                              *)
(***************************************************************************)
\* TRUE when execTime * coresRequired * memoryRequired, evaluated left to
\* right in int, leaves the range of int.
Overflows(job) ==
    \/ job.execTime > INT_MAX \div job.coresRequired
    \/ job.execTime * job.coresRequired > INT_MAX \div job.memoryRequired

\* The product the comparator computes, where it fits in an int.
GrossValue(job) == job.execTime * job.coresRequired * job.memoryRequired

\* The comparator with < for >: top() is then the job with the largest
\* product.
SmallestJobFirst_Less(j1, j2) ==
    IF Overflows(j1) \/ Overflows(j2)
    THEN BOOLEAN
    ELSE { GrossValue(j1) < GrossValue(j2) }

\* SmallestJobFirst::operator(): the set of values the call can return.  A
\* product that overflows a signed int is undefined behaviour, so either
\* result is possible then.
SmallestJobFirst(j1, j2) ==
    IF Overflows(j1) \/ Overflows(j2)
    THEN BOOLEAN
    ELSE { GrossValue(j1) > GrossValue(j2) }

\* The comparator on arrivalTime instead of execTime.
ShortestDurationFirst_ByArrival(j1, j2) == j1.arrivalTime > j2.arrivalTime

\* ShortestDurationFirst::operator().
ShortestDurationFirst(j1, j2) == j1.execTime > j2.execTime

\* The positions std::priority_queue::top() can return for jobQueueSmallest:
\* an element that the comparator puts below no other element.  The order
\* among equal elements is the library's and is left open.
TopSmallest(q) ==
    { i \in DOMAIN q : \A k \in DOMAIN q : FALSE \in SmallestJobFirst(q[i], q[k]) }

\* The positions top() can return for jobQueueShortest.
TopShortest(q) ==
    { i \in DOMAIN q : \A k \in DOMAIN q : ~ShortestDurationFirst(q[i], q[k]) }

\* top() without the pop() that follows it: the element stays in the queue.
Remove_Keep(q, i) == q

\* The sequence q without its element at position i (pop of that element).
Remove(q, i) == SubSeq(q, 1, i - 1) \o SubSeq(q, i + 1, Len(q))

(***************************************************************************)
(* Scheduler                                                               *)
(***************************************************************************)
\* The loop of Scheduler::allocateJobToNode from node index i on: the first
\* node whose allocateJob succeeds takes the job.
RECURSIVE ScanNodes(_, _, _)
ScanNodes(ns, job, i) ==
    IF i > Len(ns)
    THEN [ ok |-> FALSE, nodes |-> ns, node |-> NoNode, job |-> job ]
    ELSE LET r == allocateJob(ns[i], job)
         IN  IF r.ok
             THEN [ ok |-> TRUE, nodes |-> [ns EXCEPT ![i] = r.node],
                    node |-> ns[i].id, job |-> job ]
             ELSE ScanNodes([ns EXCEPT ![i] = r.node], job, i + 1)

\* allocateJobToNode scanning the nodes from the last one down.
RECURSIVE ScanNodesDown(_, _, _)
ScanNodesDown(ns, job, i) ==
    IF i < 1
    THEN [ ok |-> FALSE, nodes |-> ns, node |-> NoNode, job |-> job ]
    ELSE LET r == allocateJob(ns[i], job)
         IN  IF r.ok
             THEN [ ok |-> TRUE, nodes |-> [ns EXCEPT ![i] = r.node],
                    node |-> ns[i].id, job |-> job ]
             ELSE ScanNodesDown([ns EXCEPT ![i] = r.node], job, i - 1)

allocateJobToNode_LastFit(ns, job) == ScanNodesDown(ns, job, Len(ns))

\* allocateJobToNode with the loop over copies of the nodes (auto node for
\* auto &node): the allocation is made on the copy and the pool is unchanged.
allocateJobToNode_ByValue(ns, job) ==
    [ ScanNodes(ns, job, 1) EXCEPT !.nodes = ns ]

\* allocateJobToNode without the return in the loop: every node that can
\* take the job allocates it; the line printed names the first of them.
RECURSIVE ScanNodesNoReturn(_, _, _)
ScanNodesNoReturn(ns, job, i) ==
    IF i > Len(ns)
    THEN [ ok |-> FALSE, nodes |-> ns, node |-> NoNode, job |-> job ]
    ELSE LET r == allocateJob(ns[i], job)
             rest == ScanNodesNoReturn([ns EXCEPT ![i] = r.node], job, i + 1)
         IN  IF r.ok
             THEN [ ok |-> TRUE, nodes |-> rest.nodes,
                    node |-> ns[i].id, job |-> job ]
             ELSE rest

allocateJobToNode_NoReturn(ns, job) == ScanNodesNoReturn(ns, job, 1)

\* Scheduler::allocateJobToNode: the result, the nodes and the caller's job
\* after the call, and the id of the node named in the line it prints.
allocateJobToNode(ns, job) == ScanNodes(ns, job, 1)

\* The loop test as size() > 1: the loop stops with one job left.
QueueEmpty_OffByOne(q) == Len(q) <= 1

\* The test of the drain loops, negated: while (!queue.empty()).
QueueEmpty(q) == q = << >>

\* The push to pendingJobs with the ! of its condition missing.
PushIfNotAllocated_Inverted(pending, r) ==
    IF r.ok THEN Append(pending, r.job) ELSE pending

\* if (!allocateJobToNode(job)) pendingJobs.push_back(job);
PushIfNotAllocated(pending, r) ==
    IF ~r.ok THEN Append(pending, r.job) ELSE pending

\* One iteration of a drain loop on the popped job: the allocation attempt,
\* the push to pendingJobs, and the history entry.
Process(policy, job) ==
    LET r == allocateJobToNode(nodes, job)
    IN  /\ nodes' = r.nodes
        /\ pendingJobs' = PushIfNotAllocated(pendingJobs, r)
        /\ log' = Append(log, [ policy |-> policy, popped |-> job, job |-> r.job,
                                node |-> r.node, before |-> nodes,
                                after |-> r.nodes ])

Init ==
    /\ nodes = [ i \in 1..NumNodes |-> WorkerNode(i - 1) ]
    /\ jobQueueFCFS = << >>
    /\ jobQueueSmallest = << >>
    /\ jobQueueShortest = << >>
    /\ pendingJobs = << >>
    /\ pc = "idle"
    /\ report = << >>
    /\ submitted = << >>
    /\ log = << >>

\* The job producer constructs the next job; ids count up from 1.
NewJobs ==
    { Job(Len(submitted) + 1, s[1], s[2], s[3], s[4]) : s \in JobShapes }

\* addJobToQueueFCFS putting the job at the front of the queue.
addJobToQueueFCFS_PushFront ==
    /\ pc = "idle"
    /\ Len(submitted) < MaxJobs
    /\ \E job \in NewJobs :
          /\ jobQueueFCFS' = << job >> \o jobQueueFCFS
          /\ submitted' = Append(submitted, [ policy |-> "FCFS", job |-> job ])
    /\ UNCHANGED << nodes, jobQueueSmallest, jobQueueShortest, pendingJobs,
                    pc, report, log >>

\* Scheduler::addJobToQueueFCFS.
addJobToQueueFCFS ==
    /\ pc = "idle"
    /\ Len(submitted) < MaxJobs
    /\ \E job \in NewJobs :
          /\ jobQueueFCFS' = Append(jobQueueFCFS, job)
          /\ submitted' = Append(submitted, [ policy |-> "FCFS", job |-> job ])
    /\ UNCHANGED << nodes, jobQueueSmallest, jobQueueShortest, pendingJobs,
                    pc, report, log >>

\* Scheduler::addJobToQueueSmallest.
addJobToQueueSmallest ==
    /\ pc = "idle"
    /\ Len(submitted) < MaxJobs
    /\ \E job \in NewJobs :
          /\ jobQueueSmallest' = Append(jobQueueSmallest, job)
          /\ submitted' = Append(submitted, [ policy |-> "Smallest", job |-> job ])
    /\ UNCHANGED << nodes, jobQueueFCFS, jobQueueShortest, pendingJobs,
                    pc, report, log >>

\* addJobToQueueShortest pushing into the weighted-smallest queue.
addJobToQueueShortest_WrongQueue ==
    /\ pc = "idle"
    /\ Len(submitted) < MaxJobs
    /\ \E job \in NewJobs :
          /\ jobQueueSmallest' = Append(jobQueueSmallest, job)
          /\ submitted' = Append(submitted, [ policy |-> "Shortest", job |-> job ])
    /\ UNCHANGED << nodes, jobQueueFCFS, jobQueueShortest, pendingJobs,
                    pc, report, log >>

\* Scheduler::addJobToQueueShortest.
addJobToQueueShortest ==
    /\ pc = "idle"
    /\ Len(submitted) < MaxJobs
    /\ \E job \in NewJobs :
          /\ jobQueueShortest' = Append(jobQueueShortest, job)
          /\ submitted' = Append(submitted, [ policy |-> "Shortest", job |-> job ])
    /\ UNCHANGED << nodes, jobQueueFCFS, jobQueueSmallest, pendingJobs,
                    pc, report, log >>

\* The position after an iteration of the drain loop of `policy` that left
\* q in the queue: the loop condition is tested again, and the method
\* returns when it fails.
AfterIteration(policy, q) == IF QueueEmpty(q) THEN "idle" ELSE policy

\* Scheduler::scheduleJobsFCFS, one step of it: the call (when the program is
\* not in the loop yet), the test of the loop condition, and either the
\* return or one iteration and the test that follows it.
scheduleJobsFCFS ==
    /\ pc \in { "idle", "FCFS" }
    /\ IF QueueEmpty(jobQueueFCFS)
       THEN /\ pc' = "idle"
            /\ UNCHANGED << nodes, jobQueueFCFS, pendingJobs, log >>
       ELSE /\ jobQueueFCFS' = Tail(jobQueueFCFS)
            /\ Process("FCFS", Head(jobQueueFCFS))
            /\ pc' = AfterIteration("FCFS", jobQueueFCFS')
    /\ UNCHANGED << jobQueueSmallest, jobQueueShortest, report, submitted >>

\* Scheduler::scheduleJobsSmallest, likewise.
scheduleJobsSmallest ==
    /\ pc \in { "idle", "Smallest" }
    /\ IF QueueEmpty(jobQueueSmallest)
       THEN /\ pc' = "idle"
            /\ UNCHANGED << nodes, jobQueueSmallest, pendingJobs, log >>
       ELSE \E i \in TopSmallest(jobQueueSmallest) :
               /\ jobQueueSmallest' = Remove(jobQueueSmallest, i)
               /\ Process("Smallest", jobQueueSmallest[i])
               /\ pc' = AfterIteration("Smallest", jobQueueSmallest')
    /\ UNCHANGED << jobQueueFCFS, jobQueueShortest, report, submitted >>

\* Scheduler::scheduleJobsShortest, likewise.
scheduleJobsShortest ==
    /\ pc \in { "idle", "Shortest" }
    /\ IF QueueEmpty(jobQueueShortest)
       THEN /\ pc' = "idle"
            /\ UNCHANGED << nodes, jobQueueShortest, pendingJobs, log >>
       ELSE \E i \in TopShortest(jobQueueShortest) :
               /\ jobQueueShortest' = Remove(jobQueueShortest, i)
               /\ Process("Shortest", jobQueueShortest[i])
               /\ pc' = AfterIteration("Shortest", jobQueueShortest')
    /\ UNCHANGED << jobQueueFCFS, jobQueueSmallest, report, submitted >>

\* The loop of the report starting at the second node.
ReportRows_SkipFirst(ns) ==
    [ i \in 1..(Len(ns) - 1) |-> [ NodeID |-> ns[i + 1].id,
                                   cpu |-> getCpuUtilization(ns[i + 1]),
                                   memory |-> getMemoryUtilization(ns[i + 1]) ] ]

\* Scheduler::generateUtilizationReport: one row per node, in node order.
ReportRows(ns) ==
    [ i \in 1..Len(ns) |-> [ NodeID |-> ns[i].id,
                             cpu |-> getCpuUtilization(ns[i]),
                             memory |-> getMemoryUtilization(ns[i]) ] ]

generateUtilizationReport ==
    /\ pc = "idle"
    /\ report' = ReportRows(nodes)
    /\ UNCHANGED << nodes, jobQueueFCFS, jobQueueSmallest, jobQueueShortest,
                    pendingJobs, pc, submitted, log >>

\* The calls on the Scheduler that enqueue and place jobs.
SchedulerNext ==
    \/ addJobToQueueFCFS
    \/ addJobToQueueSmallest
    \/ addJobToQueueShortest
    \/ scheduleJobsFCFS
    \/ scheduleJobsSmallest
    \/ scheduleJobsShortest

Next ==
    \/ SchedulerNext
    \/ generateUtilizationReport

\* The whole program: enqueues, drains and reports in any order.
Spec == Init /\ [][Next]_vars

\* The program without the reports.  generateUtilizationReport is a const
\* member function that writes the report file and nothing else, so what
\* does not concern the report is checked on the runs without it.
SchedulerSpec == Init /\ [][SchedulerNext]_vars

\* The program with reports and at most MaxReportJobs jobs: the runs on
\* which what concerns the report is checked.
ReportNext ==
    \/ Len(submitted) < MaxReportJobs /\ addJobToQueueFCFS
    \/ Len(submitted) < MaxReportJobs /\ addJobToQueueSmallest
    \/ Len(submitted) < MaxReportJobs /\ addJobToQueueShortest
    \/ scheduleJobsFCFS
    \/ scheduleJobsSmallest
    \/ scheduleJobsShortest
    \/ generateUtilizationReport

ReportSpec == Init /\ [][ReportNext]_vars

\* The steps of a drain that is under way: the program is one thread, and
\* once it is in a drain loop these are the only steps it takes.
Continue ==
    /\ pc # "idle"
    /\ (scheduleJobsFCFS \/ scheduleJobsSmallest \/ scheduleJobsShortest)

(***************************************************************************)
(* Properties                                                              *)
(***************************************************************************)
\* The node has room for the job in both dimensions.
HasJointCapacity(node, job) ==
    /\ node.availableCores >= job.coresRequired
    /\ node.availableMemory >= job.memoryRequired

\* The index in nodes of the node with the given id.
IndexOf(id) == id + 1

\* The node indexes on which allocateJob was called for a history entry: all
\* of them up to the node that took the job.
Called(e) ==
    IF e.node = NoNode THEN DOMAIN e.before ELSE 1..IndexOf(e.node)

\* C1: in every reachable state every node has 0 <= availableCores <=
\* totalCores and 0 <= availableMemory <= totalMemory.
C1_ResourceBounds ==
    \A i \in DOMAIN nodes :
        /\ 0 <= nodes[i].availableCores
        /\ nodes[i].availableCores <= nodes[i].totalCores
        /\ 0 <= nodes[i].availableMemory
        /\ nodes[i].availableMemory <= nodes[i].totalMemory

\* A node is used up in both dimensions, a job is pending and a report has
\* been generated.
C1_Witness ==
    /\ \E i \in DOMAIN nodes :
          nodes[i].availableCores = 0 /\ nodes[i].availableMemory = 0
    /\ pendingJobs # << >>
    /\ report # << >>

\* C2: every call of allocateJob made so far returned success iff the node
\* had the cores and the memory of the job before the call; on success both
\* counters went down by the job's requirements, otherwise the node is
\* unchanged; never did exactly one of the two counters change.
C2_AllocateContract ==
    \A x \in DOMAIN log :
        LET e == log[x]
        IN  \A n \in Called(e) :
                LET b == e.before[n]
                    a == e.after[n]
                    success == e.node # NoNode /\ n = IndexOf(e.node)
                IN  /\ success <=> HasJointCapacity(b, e.popped)
                    /\ success =>
                          a = [b EXCEPT
                                 !.availableCores = @ - e.popped.coresRequired,
                                 !.availableMemory = @ - e.popped.memoryRequired]
                    /\ ~success => a = b
                    /\ (a.availableCores # b.availableCores)
                          <=> (a.availableMemory # b.availableMemory)

\* A call succeeded and took both resources, a call failed on a node that
\* had the cores of the job but not the memory, and another on a node that
\* had the memory but not the cores.
C2_Witness ==
    /\ \E x \in DOMAIN log :
          /\ log[x].node # NoNode
          /\ nodes[IndexOf(log[x].node)].availableCores < TotalCores
          /\ nodes[IndexOf(log[x].node)].availableMemory < TotalMemory
    /\ \E x \in DOMAIN log : \E n \in Called(log[x]) :
          /\ log[x].node = NoNode
          /\ log[x].before[n].availableCores >= log[x].popped.coresRequired
          /\ log[x].before[n].availableMemory < log[x].popped.memoryRequired
    /\ \E x \in DOMAIN log : \E n \in Called(log[x]) :
          /\ log[x].node = NoNode
          /\ log[x].before[n].availableCores < log[x].popped.coresRequired
          /\ log[x].before[n].availableMemory >= log[x].popped.memoryRequired

\* C3: every job placed so far went to the lowest-index node that had joint
\* capacity for it at that moment: the node that took it had the capacity,
\* no node before it had, its counters changed and no other node's did.
C3_FirstFit ==
    \A x \in DOMAIN log :
        LET e == log[x]
            n == IndexOf(e.node)
        IN  e.node # NoNode =>
                /\ n \in DOMAIN e.before
                /\ e.before[n].id = e.node
                /\ HasJointCapacity(e.before[n], e.popped)
                /\ \A m \in 1..(n - 1) : ~HasJointCapacity(e.before[m], e.popped)
                /\ e.after[n] # e.before[n]
                /\ \A m \in DOMAIN e.before : m # n => e.after[m] = e.before[m]

\* A job went to node 0 although node 1 had room for it too, and more room
\* than node 0; another job went to node 1 because node 0 had no room.
C3_Witness ==
    /\ \E x \in DOMAIN log :
          /\ log[x].node = 0
          /\ HasJointCapacity(log[x].before[2], log[x].popped)
          /\ log[x].before[2].availableCores > log[x].before[1].availableCores
          /\ log[x].before[2].availableMemory > log[x].before[1].availableMemory
    /\ \E x \in DOMAIN log :
          /\ log[x].node = 1
          /\ ~HasJointCapacity(log[x].before[1], log[x].popped)

\* The jobs of the history entries that no node took, in order, as popped.
RECURSIVE Deferred(_)
Deferred(l) ==
    IF l = << >> THEN << >>
    ELSE IF Head(l).node = NoNode
         THEN << Head(l).popped >> \o Deferred(Tail(l))
         ELSE Deferred(Tail(l))

\* A job could run on an empty node.
Feasible(job) ==
    job.coresRequired <= TotalCores /\ job.memoryRequired <= TotalMemory

\* C4: every job placed on a node has completed = TRUE after the allocation
\* (the drain's copy of the job, which allocateJobToNode gets by reference),
\* and every job in pendingJobs has completed = FALSE.
C4_CompletedOnPlacement ==
    /\ \A x \in DOMAIN log : log[x].node # NoNode => log[x].job.completed = TRUE
    /\ \A p \in DOMAIN pendingJobs : pendingJobs[p].completed = FALSE

\* C5: a job a drain popped is in pendingJobs, as popped, iff no node had
\* joint capacity for it when it was processed: pendingJobs is exactly the
\* sequence of the jobs no node took, and a job was taken by no node iff no
\* node had room for it.
C5_PendingIffNoFit ==
    /\ pendingJobs = Deferred(log)
    /\ \A x \in DOMAIN log :
          log[x].node = NoNode
              <=> \A n \in DOMAIN log[x].before :
                      ~HasJointCapacity(log[x].before[n], log[x].popped)

\* A job that an empty node would take is pending because the nodes were
\* full when it was processed, and the jobs placed before it are not pending.
C5_Witness ==
    /\ \E p \in DOMAIN pendingJobs : Feasible(pendingJobs[p])
    /\ \E x \in DOMAIN log : log[x].node = 0
    /\ \E x \in DOMAIN log : log[x].node = 1
    /\ Len(pendingJobs) = 1

\* C6: pendingJobs only grows at its end, and no step offers a job to the
\* nodes that was in pendingJobs before the step.
C6_NoRetry ==
    [][ /\ Len(pendingJobs') >= Len(pendingJobs)
        /\ SubSeq(pendingJobs', 1, Len(pendingJobs)) = pendingJobs
        /\ \A x \in DOMAIN log' : \A p \in DOMAIN pendingJobs :
              x > Len(log) => log'[x].popped.id # pendingJobs[p].id
      ]_vars

\* Two jobs are pending, the first of them since an earlier drain of another
\* policy, and a job was placed after the first one was deferred.
C6_Witness ==
    /\ Len(pendingJobs) = 2
    /\ \E x, y, z \in DOMAIN log :
          /\ x < y /\ x < z
          /\ log[x].node = NoNode
          /\ log[y].node = NoNode /\ log[y].policy # log[x].policy
          /\ log[z].node # NoNode

\* The queue of a policy, among the three given.
QueueOf(policy, fcfs, smallest, shortest) ==
    CASE policy = "FCFS" -> fcfs
      [] policy = "Smallest" -> smallest
      [] policy = "Shortest" -> shortest

\* The elements of a sequence.
Range(s) == { s[i] : i \in DOMAIN s }

\* C7: every drain terminates with its queue empty and every job of the
\* queue placed or pending.  A drain that is under way can always take its
\* next step; every step taken then is one iteration of that drain, which
\* removes exactly one job from its queue, so the drain ends after as many
\* iterations as the queue held jobs; an iteration leaves the loop only when
\* the queue is empty, whether or not its job was placed; and when the drain
\* returns every job that was enqueued for its policy has been processed and
\* was either placed or is in pendingJobs.
C7_DrainCompletes ==
    [][ /\ pc # "idle" =>
             /\ ENABLED Continue
             /\ Len(log') = Len(log) + 1
             /\ log'[Len(log')].policy = pc
        /\ Len(log') > Len(log) =>
             LET p == log'[Len(log')].policy
                 q == QueueOf(p, jobQueueFCFS, jobQueueSmallest, jobQueueShortest)
                 qn == QueueOf(p, jobQueueFCFS', jobQueueSmallest',
                               jobQueueShortest')
             IN  /\ Len(qn) = Len(q) - 1
                 /\ pc' = IF qn = << >> THEN "idle" ELSE p
                 /\ pc' = "idle" =>
                      \A s \in Range(submitted) :
                         s.policy = p =>
                            \E x \in DOMAIN log' :
                               /\ log'[x].popped = s.job
                               /\ \/ log'[x].node # NoNode
                                  \/ s.job \in Range(pendingJobs')
      ]_vars

\* A drain of two jobs has returned: its first job was deferred, its second
\* job, enqueued before the first, was placed after that, and no queue is
\* left with a job.
C7_Witness ==
    /\ pc = "idle"
    /\ Len(log) = Len(submitted)
    /\ \E x \in DOMAIN log :
          /\ x + 1 \in DOMAIN log
          /\ log[x].node = NoNode
          /\ log[x + 1].policy = log[x].policy
          /\ log[x + 1].popped.id < log[x].popped.id
          /\ log[x + 1].node # NoNode

\* The job needs more cores than any node has in total, or more memory than
\* any node has in total.
Infeasible(job) ==
    \/ \A n \in DOMAIN nodes : job.coresRequired > nodes[n].totalCores
    \/ \A n \in DOMAIN nodes : job.memoryRequired > nodes[n].totalMemory

\* C8: an infeasible job that has left its queue is in pendingJobs, whatever
\* its queue, the other jobs and the order of the drains.
C8_InfeasiblePending ==
    \A x \in DOMAIN submitted :
        LET s == submitted[x]
        IN  Infeasible(s.job) =>
               \/ s.job \in Range(QueueOf(s.policy, jobQueueFCFS, jobQueueSmallest,
                                          jobQueueShortest))
               \/ s.job \in Range(pendingJobs)

\* A job with too many cores and a job with too much memory, drained from
\* the queues of two policies, are pending while a node is still empty, and
\* the Shortest queue was drained before the FCFS queue.
C8_Witness ==
    /\ pc = "idle"
    /\ \E p, q \in DOMAIN pendingJobs :
          /\ pendingJobs[p].coresRequired > TotalCores
          /\ pendingJobs[q].memoryRequired > TotalMemory
    /\ \E x, y \in DOMAIN log :
          /\ x < y
          /\ log[x].policy = "Shortest" /\ log[y].policy = "FCFS"
          /\ log[x].node = NoNode /\ log[y].node = NoNode
    /\ \E n \in DOMAIN nodes : nodes[n].availableCores = nodes[n].totalCores

\* execTime * coresRequired * memoryRequired as a number of two digits in
\* base 65536, high digit first (the product of the first two factors is
\* below 2^31 and memoryRequired below 2^15 for every job of the model).
TrueProduct(job) ==
    LET a == job.execTime * job.coresRequired
        low == (a % 65536) * job.memoryRequired
    IN  << (a \div 65536) * job.memoryRequired + low \div 65536, low % 65536 >>

\* TrueProduct(j1) <= TrueProduct(j2).
ProductLeq(j1, j2) ==
    LET v == TrueProduct(j1)
        w == TrueProduct(j2)
    IN  v[1] < w[1] \/ (v[1] = w[1] /\ v[2] <= w[2])

\* C9: every job a drain of the Smallest queue processes has the smallest
\* execTime * coresRequired * memoryRequired of the jobs in the queue at
\* that moment, so the jobs of a drain are processed in non-decreasing order
\* of that product.
C9_SmallestProductFirst ==
    [][ (Len(log') > Len(log) /\ log'[Len(log')].policy = "Smallest") =>
           \A k \in DOMAIN jobQueueSmallest :
               ProductLeq(log'[Len(log')].popped, jobQueueSmallest[k])
      ]_vars

\* C10: every job a drain of the Shortest queue processes has the smallest
\* execTime of the jobs in the queue at that moment, so the jobs of a drain
\* are processed in non-decreasing order of execTime, whatever their other
\* fields and the order of insertion.
C10_ShortestDurationFirst ==
    [][ (Len(log') > Len(log) /\ log'[Len(log')].policy = "Shortest") =>
           \A k \in DOMAIN jobQueueShortest :
               log'[Len(log')].popped.execTime <= jobQueueShortest[k].execTime
      ]_vars

\* One drain of the Shortest queue processed three jobs in the order of
\* their execTime, which is the reverse of the order of insertion and of the
\* order of arrivalTime; the first of them needs more memory than the
\* second, and the second more cores than the third.
C10_Witness ==
    \E x \in DOMAIN log :
        /\ x + 2 \in DOMAIN log
        /\ \A y \in { x, x + 1, x + 2 } : log[y].policy = "Shortest"
        /\ \A y \in { x, x + 1 } :
              /\ log[y].popped.id > log[y + 1].popped.id
              /\ log[y].popped.execTime < log[y + 1].popped.execTime
              /\ log[y].popped.arrivalTime > log[y + 1].popped.arrivalTime
        /\ log[x].popped.memoryRequired > log[x + 1].popped.memoryRequired
        /\ log[x + 1].popped.coresRequired > log[x + 2].popped.coresRequired

\* The jobs enqueued for a policy, in the order of the enqueues.
RECURSIVE PushedTo(_, _)
PushedTo(policy, s) ==
    IF s = << >> THEN << >>
    ELSE IF Head(s).policy = policy
         THEN << Head(s).job >> \o PushedTo(policy, Tail(s))
         ELSE PushedTo(policy, Tail(s))

\* The jobs the drains of a policy have processed, in the order of processing.
RECURSIVE ProcessedBy(_, _)
ProcessedBy(policy, l) ==
    IF l = << >> THEN << >>
    ELSE IF Head(l).policy = policy
         THEN << Head(l).popped >> \o ProcessedBy(policy, Tail(l))
         ELSE ProcessedBy(policy, Tail(l))

\* C11: the jobs the FCFS drains have offered to the nodes are, in that
\* order, the first jobs pushed into the FCFS queue in the order of the
\* pushes, and the queue holds the rest in that order.
C11_FCFSOrder ==
    PushedTo("FCFS", submitted) = ProcessedBy("FCFS", log) \o jobQueueFCFS

\* One FCFS drain processed three jobs in the order of the pushes although
\* the first arrived later and is larger than the second, and the second
\* takes longer than the third.
C11_Witness ==
    \E x \in DOMAIN log :
        /\ x + 2 \in DOMAIN log
        /\ \A y \in { x, x + 1, x + 2 } : log[y].policy = "FCFS"
        /\ log[x].popped.id < log[x + 1].popped.id
        /\ log[x + 1].popped.id < log[x + 2].popped.id
        /\ log[x].popped.arrivalTime > log[x + 1].popped.arrivalTime
        /\ ~ProductLeq(log[x].popped, log[x + 1].popped)
        /\ log[x + 1].popped.execTime > log[x + 2].popped.execTime

\* The cores that the entries of l took from node id.
RECURSIVE CoresTaken(_, _)
CoresTaken(l, id) ==
    IF l = << >> THEN 0
    ELSE (IF Head(l).node = id THEN Head(l).popped.coresRequired ELSE 0)
            + CoresTaken(Tail(l), id)

\* The memory that the entries of l took from node id.
RECURSIVE MemoryTaken(_, _)
MemoryTaken(l, id) ==
    IF l = << >> THEN 0
    ELSE (IF Head(l).node = id THEN Head(l).popped.memoryRequired ELSE 0)
            + MemoryTaken(Tail(l), id)

\* The outcome of offering the jobs of a sequence to the nodes ns in order:
\* the nodes at the end and the ids of the jobs no node took.
RECURSIVE OfferAll(_, _)
OfferAll(ns, jobs) ==
    IF jobs = << >> THEN [ nodes |-> ns, pending |-> { } ]
    ELSE LET r == allocateJobToNode(ns, Head(jobs))
             rest == OfferAll(r.nodes, Tail(jobs))
         IN  [ nodes |-> rest.nodes,
               pending |-> IF r.ok THEN rest.pending
                           ELSE { Head(jobs).id } \cup rest.pending ]

\* C12: the nodes are shared by the drains and carried over between them:
\* what every allocation attempt finds on each node is the node's total less
\* everything placed on it by the attempts before, of whatever policy, and
\* the nodes of the state are what the last attempt left.  (The order
\* dependence that follows is the state C12_Witness describes.)
C12_SharedNodeState ==
    /\ \A x \in DOMAIN log : \A n \in DOMAIN log[x].before :
          LET earlier == SubSeq(log, 1, x - 1)
              b == log[x].before[n]
          IN  /\ b.availableCores = b.totalCores - CoresTaken(earlier, b.id)
              /\ b.availableMemory = b.totalMemory - MemoryTaken(earlier, b.id)
    /\ log # << >> => nodes = log[Len(log)].after

\* The FCFS queue was drained and then the Smallest queue, whose jobs were
\* all enqueued before those of the FCFS queue; a job of the Smallest queue
\* is pending, and it is placed when the same jobs are offered to the empty
\* nodes with the Smallest jobs first, in the order their drain took them.
C12_Witness ==
    LET fcfs == ProcessedBy("FCFS", log)
        smallest == ProcessedBy("Smallest", log)
        empty == [ i \in DOMAIN nodes |-> WorkerNode(i - 1) ]
    IN  /\ pc = "idle"
        /\ fcfs # << >> /\ smallest # << >>
        /\ Len(log) = Len(fcfs) + Len(smallest)
        /\ Len(log) = Len(submitted)
        /\ \A x \in 1..Len(fcfs) : log[x].policy = "FCFS"
        /\ \A i \in DOMAIN smallest : \A k \in DOMAIN fcfs :
              smallest[i].id < fcfs[k].id
        /\ \E x \in DOMAIN log :
              /\ log[x].policy = "Smallest"
              /\ log[x].node = NoNode
              /\ log[x].popped.id \notin OfferAll(empty, smallest \o fcfs).pending

\* u, in hundredths of a percent, is 100 * (1 - available / total) rounded
\* to two decimals.
IsUtilization(u, available, total) ==
    LET exact == 10000 * (total - available)
        diff == u * total - exact
    IN  2 * diff <= total /\ 2 * diff >= 0 - total

\* C13: in every reachable state the CPU and the memory utilization of every
\* node are 100 * (1 - available / total) and lie between 0 and 100, and a
\* node of 24 cores and 64 GB that holds a job of 12 cores and 32 GB and
\* nothing else has both at exactly 50.00.
C13_Utilization ==
    \A i \in DOMAIN nodes :
        LET n == nodes[i]
            cpu == getCpuUtilization(n)
            memory == getMemoryUtilization(n)
        IN  /\ IsUtilization(cpu, n.availableCores, n.totalCores)
            /\ IsUtilization(memory, n.availableMemory, n.totalMemory)
            /\ 0 <= cpu /\ cpu <= 10000
            /\ 0 <= memory /\ memory <= 10000
            /\ ( /\ n.totalCores = 24 /\ n.totalMemory = 64
                 /\ n.availableCores = 24 - 12 /\ n.availableMemory = 64 - 32 )
                  => cpu = 5000 /\ memory = 5000

\* A job of 12 cores and 32 GB was placed on an empty node, which is at
\* 50.00 and 50.00, while another node is at neither 0, 50 nor 100.
C13_Witness ==
    /\ \E x \in DOMAIN log :
          /\ log[x].node # NoNode
          /\ log[x].popped.coresRequired = 12
          /\ log[x].popped.memoryRequired = 32
          /\ log[x].before[IndexOf(log[x].node)].availableCores = 24
          /\ log[x].before[IndexOf(log[x].node)].availableMemory = 64
          /\ getCpuUtilization(log[x].after[IndexOf(log[x].node)]) = 5000
          /\ getMemoryUtilization(log[x].after[IndexOf(log[x].node)]) = 5000
          /\ nodes[IndexOf(log[x].node)] = log[x].after[IndexOf(log[x].node)]
    /\ \E i \in DOMAIN nodes :
          /\ getCpuUtilization(nodes[i]) \notin { 0, 5000, 10000 }
          /\ getMemoryUtilization(nodes[i]) \notin { 0, 5000, 10000 }

\* C14: a report, whenever it is generated, has one row per node of the
\* pool, with the ids 0, 1, ... in ascending order and the utilization of
\* that node; generated before any drain has processed a job it shows 0.00
\* and 0.00 in every row; and a step that neither enqueues a job nor is an
\* iteration of a drain (a report, or a drain of an empty queue) leaves the
\* nodes, the three queues and pendingJobs as they were.
C14_Report ==
    [][ /\ report' # report =>
             /\ Len(report') = NumNodes
             /\ Len(report') = Len(nodes)
             /\ \A i \in DOMAIN report' :
                   /\ report'[i].NodeID = i - 1
                   /\ report'[i].NodeID = nodes[i].id
                   /\ IsUtilization(report'[i].cpu, nodes[i].availableCores,
                                    nodes[i].totalCores)
                   /\ IsUtilization(report'[i].memory, nodes[i].availableMemory,
                                    nodes[i].totalMemory)
                   /\ log = << >> =>
                         report'[i].cpu = 0 /\ report'[i].memory = 0
        /\ (report' # report
              \/ (Len(log') = Len(log) /\ Len(submitted') = Len(submitted))) =>
             UNCHANGED << nodes, jobQueueFCFS, jobQueueSmallest,
                          jobQueueShortest, pendingJobs >>
      ]_vars

\* A report was generated before any drain, with jobs waiting in a queue: it
\* has a row per node and zeros only, and the jobs were placed afterwards.
C14_Witness ==
    /\ Len(report) = NumNodes
    /\ \A i \in DOMAIN report :
          report[i].NodeID = i - 1 /\ report[i].cpu = 0 /\ report[i].memory = 0
    /\ \E i \in DOMAIN nodes : nodes[i].availableCores < nodes[i].totalCores
    /\ log # << >>
    /\ Len(log) = Len(submitted)

(***************************************************************************)
(* A worker node on its own.  WorkerNode is a struct with public members:  *)
(* a caller can call allocateJob and freeResources on a node in any order  *)
(* and with any job.  NodeSpec is one node under MaxCalls such calls; the  *)
(* node is nodes[1], and log records the calls.                            *)
(***************************************************************************)
NodeInit ==
    /\ nodes = << WorkerNode(0) >>
    /\ jobQueueFCFS = << >>
    /\ jobQueueSmallest = << >>
    /\ jobQueueShortest = << >>
    /\ pendingJobs = << >>
    /\ pc = "idle"
    /\ report = << >>
    /\ submitted = << >>
    /\ log = << >>

\* The jobs a caller may pass to the node.
CallJobs ==
    { Job(Len(log) + 1, s[1], s[2], s[3], s[4]) : s \in JobShapes }
        \cup { log[x].job : x \in DOMAIN log }

\* A call of WorkerNode::allocateJob.
NodeAllocate ==
    /\ Len(log) < MaxCalls
    /\ \E job \in CallJobs :
          LET r == allocateJob(nodes[1], job)
          IN  /\ nodes' = << r.node >>
              /\ log' = Append(log, [ call |-> "allocateJob", job |-> job,
                                      ok |-> r.ok, before |-> nodes[1],
                                      after |-> r.node ])
    /\ UNCHANGED << jobQueueFCFS, jobQueueSmallest, jobQueueShortest,
                    pendingJobs, pc, report, submitted >>

\* A call of WorkerNode::freeResources.
NodeFree ==
    /\ Len(log) < MaxCalls
    /\ \E job \in CallJobs :
          LET n == freeResources(nodes[1], job)
          IN  /\ nodes' = << n >>
              /\ log' = Append(log, [ call |-> "freeResources", job |-> job,
                                      ok |-> TRUE, before |-> nodes[1],
                                      after |-> n ])
    /\ UNCHANGED << jobQueueFCFS, jobQueueSmallest, jobQueueShortest,
                    pendingJobs, pc, report, submitted >>

NodeNext == NodeAllocate \/ NodeFree

NodeSpec == NodeInit /\ [][NodeNext]_vars

\* C15: every call of freeResources adds the job's cores and memory to the
\* two counters, whatever they were and whatever the totals are; so a
\* freeResources(job) right after a successful allocateJob(job) leaves both
\* counters as they were before the allocation.
C15_FreeResources ==
    /\ \A x \in DOMAIN log :
          log[x].call = "freeResources" =>
             log[x].after =
                [ log[x].before EXCEPT
                    !.availableCores = @ + log[x].job.coresRequired,
                    !.availableMemory = @ + log[x].job.memoryRequired ]
    /\ \A x \in DOMAIN log :
          ( /\ x > 1
            /\ log[x].call = "freeResources"
            /\ log[x - 1].call = "allocateJob" /\ log[x - 1].ok
            /\ log[x - 1].job = log[x].job )
             => log[x].after = log[x - 1].before

\* A job was allocated and freed again, which restored the node; a second
\* free of the same job then took the counters above the totals.
C15_Witness ==
    \E x \in DOMAIN log :
        /\ x + 2 \in DOMAIN log
        /\ log[x].call = "allocateJob" /\ log[x].ok
        /\ log[x + 1].call = "freeResources" /\ log[x + 1].job = log[x].job
        /\ log[x + 1].after = log[x].before
        /\ log[x + 1].after # log[x].after
        /\ log[x + 2].call = "freeResources" /\ log[x + 2].job = log[x].job
        /\ log[x + 2].after.availableCores > log[x + 2].after.totalCores
        /\ log[x + 2].after.availableMemory > log[x + 2].after.totalMemory

\* C16: the three policy queues are independent.  A step that enqueues a job
\* under a policy appends it to the queue of that policy and leaves the other
\* two queues, the nodes and pendingJobs unchanged; an iteration of the drain
\* of a policy removes one job from the queue of that policy and leaves the
\* other two queues and the report unchanged; a drain step that finds its
\* queue empty changes no queue, no node and not pendingJobs.
C16_QueuesIndependent ==
    [][ LET Policies == { "FCFS", "Smallest", "Shortest" }
            Before(p) == QueueOf(p, jobQueueFCFS, jobQueueSmallest,
                                 jobQueueShortest)
            After(p) == QueueOf(p, jobQueueFCFS', jobQueueSmallest',
                                jobQueueShortest')
        IN  /\ Len(submitted') > Len(submitted) =>
                 LET e == submitted'[Len(submitted')]
                 IN  /\ After(e.policy) = Append(Before(e.policy), e.job)
                     /\ \A p \in Policies \ { e.policy } : After(p) = Before(p)
                     /\ UNCHANGED << nodes, pendingJobs, report, log >>
            /\ Len(log') > Len(log) =>
                 LET e == log'[Len(log')]
                 IN  /\ Len(After(e.policy)) = Len(Before(e.policy)) - 1
                     /\ Range(After(e.policy)) =
                           Range(Before(e.policy)) \ { e.job }
                     /\ \A p \in Policies \ { e.policy } : After(p) = Before(p)
                     /\ UNCHANGED << report, submitted >>
            /\ (Len(submitted') = Len(submitted) /\ Len(log') = Len(log)) =>
                 UNCHANGED << jobQueueFCFS, jobQueueSmallest, jobQueueShortest,
                              nodes, pendingJobs >>
      ]_vars

\* The weighted-smallest queue has been drained to the end while the other
\* two queues still hold the jobs pushed into them before that drain.
C16_Witness ==
    /\ pc = "idle"
    /\ jobQueueSmallest = << >>
    /\ jobQueueFCFS # << >>
    /\ jobQueueShortest # << >>
    /\ log # << >>
    /\ \A x \in DOMAIN log : log[x].policy = "Smallest"
    /\ PushedTo("FCFS", submitted) = jobQueueFCFS
    /\ PushedTo("Shortest", submitted) = jobQueueShortest

\* The number of positions of a sequence that hold x.
Count(s, x) == Cardinality({ i \in DOMAIN s : s[i] = x })

\* The number of allocation attempts that placed the job on a node.
Placements(job) ==
    Cardinality({ x \in DOMAIN log :
                    log[x].popped = job /\ log[x].node # NoNode })

\* C17: conservation.  Every enqueued job is in exactly one place: once in
\* the queue of its policy, or placed once on one node, or once in
\* pendingJobs; the queues, the placements and pendingJobs hold enqueued jobs
\* only; and what each node has given out, in cores and in memory, is the sum
\* of the requirements of the jobs placed on it.
C17_Conservation ==
    /\ \A x \in DOMAIN submitted :
          LET job == submitted[x].job
              policy == submitted[x].policy
              queued == Count(jobQueueFCFS, job) + Count(jobQueueSmallest, job)
                           + Count(jobQueueShortest, job)
          IN  /\ queued + Placements(job) + Count(pendingJobs, job) = 1
              /\ queued = Count(QueueOf(policy, jobQueueFCFS, jobQueueSmallest,
                                        jobQueueShortest), job)
              /\ \A y \in DOMAIN log :
                    (log[y].popped = job /\ log[y].node # NoNode) =>
                       \E n \in DOMAIN nodes : nodes[n].id = log[y].node
    /\ Range(jobQueueFCFS) \cup Range(jobQueueSmallest)
          \cup Range(jobQueueShortest) \cup Range(pendingJobs)
          \cup { log[y].popped : y \in DOMAIN log }
             \subseteq { submitted[x].job : x \in DOMAIN submitted }
    /\ Len(jobQueueFCFS) + Len(jobQueueSmallest) + Len(jobQueueShortest)
          + Len(log) = Len(submitted)
    /\ \A n \in DOMAIN nodes :
          /\ nodes[n].totalCores - nodes[n].availableCores
                = CoresTaken(log, nodes[n].id)
          /\ nodes[n].totalMemory - nodes[n].availableMemory
                = MemoryTaken(log, nodes[n].id)

\* At once one job is still queued, one is pending, and one is placed on a
\* node whose counters are down by exactly its requirements.
C17_Witness ==
    /\ jobQueueFCFS \o jobQueueSmallest \o jobQueueShortest # << >>
    /\ pendingJobs # << >>
    /\ \E y \in DOMAIN log : \E n \in DOMAIN nodes :
          /\ log[y].node = nodes[n].id
          /\ nodes[n].availableCores
                = nodes[n].totalCores - log[y].popped.coresRequired
          /\ nodes[n].availableMemory
                = nodes[n].totalMemory - log[y].popped.memoryRequired

\* C18: capacity is monotone under scheduling.  No enqueue or drain step
\* raises the available cores or the available memory of a node (none of
\* them calls freeResources), the nodes keep their ids and totals, and so in
\* every state each job of pendingJobs, from the step that appends it on,
\* fits on no node.
C18_CapacityMonotone ==
    [][ /\ DOMAIN nodes' = DOMAIN nodes
        /\ \A n \in DOMAIN nodes :
              /\ nodes'[n].availableCores <= nodes[n].availableCores
              /\ nodes'[n].availableMemory <= nodes[n].availableMemory
              /\ nodes'[n].id = nodes[n].id
              /\ nodes'[n].totalCores = nodes[n].totalCores
              /\ nodes'[n].totalMemory = nodes[n].totalMemory
        /\ \A p \in DOMAIN pendingJobs' : \A n \in DOMAIN nodes' :
              ~HasJointCapacity(nodes'[n], pendingJobs'[p])
      ]_vars

\* A job went to pendingJobs, a later allocation attempt placed another job
\* and took capacity from a node, and the pending job fits on no node.
C18_Witness ==
    \E y, z \in DOMAIN log :
        /\ y < z
        /\ log[y].node = NoNode
        /\ log[y].popped \in Range(pendingJobs)
        /\ log[z].node # NoNode
        /\ \E n \in DOMAIN nodes :
              /\ nodes[n].availableCores < log[y].before[n].availableCores
              /\ nodes[n].availableMemory < log[y].before[n].availableMemory
        /\ \A n \in DOMAIN nodes : ~HasJointCapacity(nodes[n], log[y].popped)

\* C19: the key SmallestJobFirst computes in int is the mathematical product
\* execTime * coresRequired * memoryRequired for every job, so for any two
\* jobs of the Smallest queue the int product is defined and the comparator
\* returns exactly "the product of the first exceeds the product of the
\* second", products beyond the range of int included.
C19_KeyIsProduct ==
    \A i, k \in DOMAIN jobQueueSmallest :
        i # k =>
           /\ ~Overflows(jobQueueSmallest[i])
           /\ SmallestJobFirst(jobQueueSmallest[i], jobQueueSmallest[k])
                 = { ~ProductLeq(jobQueueSmallest[i], jobQueueSmallest[k]) }

(***************************************************************************)
(* The run of main: a Scheduler, the five sample jobs, the three drains in *)
(* the order FCFS, Smallest, Shortest, and the report.  main constructs    *)
(* the Scheduler with PoolSize nodes; MainSpec runs the same program for   *)
(* every pool of 1..PoolSize nodes.                                        *)
(***************************************************************************)
\* The argument of the Scheduler constructor in main.
PoolSize == 128

\* The calls of generateSampleJobs, in order.
SampleJobs ==
    << [ policy |-> "FCFS", job |-> Job(1, 1, 10, 32, 5) ],
       [ policy |-> "Smallest", job |-> Job(2, 2, 5, 16, 3) ],
       [ policy |-> "Shortest", job |-> Job(3, 3, 20, 48, 2) ],
       [ policy |-> "FCFS", job |-> Job(4, 4, 8, 20, 6) ],
       [ policy |-> "Smallest", job |-> Job(5, 5, 12, 40, 1) ] >>

MainInit ==
    /\ \E n \in 1..PoolSize : nodes = [ i \in 1..n |-> WorkerNode(i - 1) ]
    /\ jobQueueFCFS = << >>
    /\ jobQueueSmallest = << >>
    /\ jobQueueShortest = << >>
    /\ pendingJobs = << >>
    /\ pc = "idle"
    /\ report = << >>
    /\ submitted = << >>
    /\ log = << >>

\* generateSampleJobs, one call of addJobToQueue* at a time.
generateSampleJobs ==
    /\ pc = "idle"
    /\ Len(submitted) < Len(SampleJobs)
    /\ LET e == SampleJobs[Len(submitted) + 1]
       IN  /\ jobQueueFCFS' = IF e.policy = "FCFS"
                              THEN Append(jobQueueFCFS, e.job)
                              ELSE jobQueueFCFS
           /\ jobQueueSmallest' = IF e.policy = "Smallest"
                                  THEN Append(jobQueueSmallest, e.job)
                                  ELSE jobQueueSmallest
           /\ jobQueueShortest' = IF e.policy = "Shortest"
                                  THEN Append(jobQueueShortest, e.job)
                                  ELSE jobQueueShortest
           /\ submitted' = Append(submitted, e)
    /\ UNCHANGED << nodes, pendingJobs, pc, report, log >>

\* The statements of main, in program order: each drain is called when the
\* statements before it have returned, and the report is generated last.
MainNext ==
    \/ generateSampleJobs
    \/ /\ Len(submitted) = Len(SampleJobs)
       /\ jobQueueFCFS # << >>
       /\ scheduleJobsFCFS
    \/ /\ Len(submitted) = Len(SampleJobs)
       /\ jobQueueFCFS = << >> /\ jobQueueSmallest # << >>
       /\ scheduleJobsSmallest
    \/ /\ Len(submitted) = Len(SampleJobs)
       /\ jobQueueFCFS = << >> /\ jobQueueSmallest = << >>
       /\ jobQueueShortest # << >>
       /\ scheduleJobsShortest
    \/ /\ Len(submitted) = Len(SampleJobs)
       /\ jobQueueFCFS = << >> /\ jobQueueSmallest = << >>
       /\ jobQueueShortest = << >>
       /\ report = << >>
       /\ generateUtilizationReport

MainSpec == MainInit /\ [][MainNext]_vars

\* The id of the node that took the job with the given id, in the history.
PlacedOn(id) ==
    { log[x].node : x \in { y \in DOMAIN log : log[y].popped.id = id } }

\* The position in the history of the job with the given id.
ProcessedAt(id) == CHOOSE x \in DOMAIN log : log[x].popped.id = id

\* C20: the reference run.  With 128 nodes of 24 cores and 64 GB, the five
\* sample jobs and the drains in the order FCFS, Smallest, Shortest,
\* pendingJobs is empty throughout, and when the run is over every job is
\* placed: jobs 1 and 4 on node 0, jobs 2 and 5 on node 1 with job 2 before
\* job 5, job 3 on node 2; nodes 0, 1, 2 have (cores, memory) of (6, 12),
\* (7, 8), (4, 16) available and nodes 3..127 are untouched.
C20_ReferenceRun ==
    (Len(nodes) = 128 /\ \A n \in DOMAIN nodes :
         nodes[n].totalCores = 24 /\ nodes[n].totalMemory = 64) =>
       /\ pendingJobs = << >>
       /\ report # << >> =>
             /\ Len(log) = 5
             /\ PlacedOn(1) = { 0 } /\ PlacedOn(4) = { 0 }
             /\ PlacedOn(2) = { 1 } /\ PlacedOn(5) = { 1 }
             /\ PlacedOn(3) = { 2 }
             /\ ProcessedAt(2) < ProcessedAt(5)
             /\ << log[1].policy, log[2].policy, log[3].policy,
                   log[4].policy, log[5].policy >>
                   = << "FCFS", "FCFS", "Smallest", "Smallest", "Shortest" >>
             /\ nodes[1].availableCores = 6 /\ nodes[1].availableMemory = 12
             /\ nodes[2].availableCores = 7 /\ nodes[2].availableMemory = 8
             /\ nodes[3].availableCores = 4 /\ nodes[3].availableMemory = 16
             /\ \A n \in 4..128 : nodes[n] = WorkerNode(n - 1)

\* The run of main with its 128 nodes is over: the five jobs went through
\* the three drains and the report shows nodes 0, 1 and 2 in use.
C20_Witness ==
    /\ Len(nodes) = PoolSize
    /\ Len(submitted) = 5
    /\ Len(log) = 5
    /\ jobQueueFCFS \o jobQueueSmallest \o jobQueueShortest = << >>
    /\ pc = "idle"
    /\ Len(report) = PoolSize
    /\ report[1].cpu = 7500 /\ report[1].memory = 8125
    /\ report[2].cpu > 0 /\ report[3].cpu > 0
    /\ report[4].cpu = 0 /\ report[PoolSize].memory = 0

====
